---- MODULE Spec2Model ----
(***************************************************************************)
(* Job status inference (scripts/inferStatus.js).                          *)
(*                                                                         *)
(* The file holds two variants of the script: the status-inference engine  *)
(* (inferStatuses with four arguments, lines 261-313), which tracks a      *)
(* rank cursor per job and consults keyword scores, role affinities and    *)
(* role caps, and the baseline (inferStatuses with two arguments, lines    *)
(* 483-520), which copies known explicit statuses and carries the last     *)
(* one forward.  Both are modelled as one state machine that walks the     *)
(* forEach loops of the function one iteration at a time.                  *)
(*                                                                         *)
(* Field values are strings, as the CSV reader produces them.  Ranks are   *)
(* 0-based as in the source; the TLA+ sequence of the order is 1-based,    *)
(* so statusOrder[i] of the source is order[i + 1] here.                   *)
(***************************************************************************)
EXTENDS Integers, Sequences, FiniteSets, TLC

VARIABLES
    variant,      \* "engine" (lines 261-313) or "baseline" (lines 483-520)
    statusOrder,  \* orderList, the canonical status order (loadStatusOrder)
    rows,         \* the input rows, in input order
    pc,           \* position in inferStatuses: "group", "sort", "rows", "done"
    ri,           \* next row of the grouping loop (1-based; index = ri - 1)
    groups,       \* the groups Map, as a sequence of entries lists in insertion order
    gi,           \* group being processed by groups.forEach
    entries,      \* the entries of group gi after entries.sort
    ei,           \* next entry of entries.forEach
    current,      \* let current
    currentIdx,   \* let currentIdx (engine only)
    assignments,  \* the assignments Map: row index -> status
    writes,       \* number of assignments.set calls per key
    log           \* per processed row: what the iteration saw and committed

vars == <<variant, statusOrder, rows, pc, ri, groups, gi, entries, ei,
          current, currentIdx, assignments, writes, log>>

-----------------------------------------------------------------------------
(* Bounds of the model.                                                    *)

MaxRows == 2

MaxOrderRows == 3

-----------------------------------------------------------------------------
(* Strings.                                                                *)

\* statusIndex.get(x) === undefined, and Array.prototype.indexOf's "absent".
NoIdx == -1

\* safeDate(value) === null.
NoDate == -1

DEFAULT_FALLBACK_STATUS == "Estimating"

UpperToLower ==
    [c \in {"A","B","C","D","E","F","G","H","I","J","K","L","M","N","O","P",
            "Q","R","S","T","U","V","W","X","Y","Z"} |->
        CASE c = "A" -> "a" [] c = "B" -> "b" [] c = "C" -> "c" [] c = "D" -> "d"
          [] c = "E" -> "e" [] c = "F" -> "f" [] c = "G" -> "g" [] c = "H" -> "h"
          [] c = "I" -> "i" [] c = "J" -> "j" [] c = "K" -> "k" [] c = "L" -> "l"
          [] c = "M" -> "m" [] c = "N" -> "n" [] c = "O" -> "o" [] c = "P" -> "p"
          [] c = "Q" -> "q" [] c = "R" -> "r" [] c = "S" -> "s" [] c = "T" -> "t"
          [] c = "U" -> "u" [] c = "V" -> "v" [] c = "W" -> "w" [] c = "X" -> "x"
          [] c = "Y" -> "y" [] c = "Z" -> "z"]

\* String.prototype.toLowerCase, on ASCII text.
RECURSIVE ToLowerCase(_)
ToLowerCase(s) ==
    IF s = "" THEN ""
    ELSE LET c == SubSeq(s, 1, 1)
         IN  (IF c \in DOMAIN UpperToLower THEN UpperToLower[c] ELSE c)
                \o ToLowerCase(SubSeq(s, 2, Len(s)))

\* p.trim().length > 0: some character of p is not a blank.
TrimNonEmpty(p) == \E i \in 1..Len(p) : SubSeq(p, i, i) # " "

\* text contains sub as a substring.
Contains(text, sub) ==
    \E i \in 1..(Len(text) - Len(sub) + 1) : SubSeq(text, i, i + Len(sub) - 1) = sub

\* pattern.test(text) for the patterns of this file: each is an alternation
\* of literal strings (a set of alternatives; /paused?/ is pause|paused).
Test(pattern, text) == \E alt \in pattern : Contains(text, alt)

\* pattern.test(text) for a pattern with the i flag (ASCII case folding);
\* the alternatives are written in lower case.
TestI(pattern, text) == Test(pattern, ToLowerCase(text))

-----------------------------------------------------------------------------
(* The constant tables.                                                    *)

STATUS_KEYWORDS == <<
    [status |-> "Estimating",
     patterns |-> <<{"estimate"}, {"proposal"}, {"bid"}, {"pricing"}, {"rfp"}>>],
    [status |-> "Job Setup",
     patterns |-> <<{"setup"}, {"conversion"}, {"onboard"}, {"kickoff"}>>],
    [status |-> "Ready to Schedule",
     patterns |-> <<{"ready to schedule"}, {"project conversion"}, {"mobilize"}>>],
    [status |-> "Scheduled",
     patterns |-> <<{"schedule"}, {"scheduled"}, {"booking"}, {"calendar"}>>],
    [status |-> "On Hold",
     patterns |-> <<{"hold"}, {"pause", "paused"}>>],
    [status |-> "Field Work in Progress",
     patterns |-> <<{"travel"}, {"site"}, {"field"}, {"collect"}, {"survey"},
                    {"scan"}, {"locat"}, {"inspection"}, {"safety"}>>],
    [status |-> "Ready to Draft",
     patterns |-> <<{"processing"}, {"register"}, {"ortho"}, {"clean"}, {"qc"},
                    {"convert"}>>],
    [status |-> "Drafting",
     patterns |-> <<{"draft"}, {"survbase"}, {"cad"}, {"markup"}, {"dwg"}, {"plan"}>>],
    [status |-> "Ready to Check",
     patterns |-> <<{"ready to check"}, {"package ready"}, {"awaiting check"}>>],
    [status |-> "Checking",
     patterns |-> <<{"check"}, {"qa"}, {"review"}>>],
    [status |-> "Final Submission Sent",
     patterns |-> <<{"submission"}, {"deliver"}, {"sent"}, {"deliverable"},
                    {"package issued"}>>],
    [status |-> "Ready to Invoice",
     patterns |-> <<{"ready to invoice"}, {"billing"}, {"billable"}>>],
    [status |-> "Invoiced",
     patterns |-> <<{"invoic"}>>],
    [status |-> "Complete",
     patterns |-> <<{"project complete"}, {"job complete"}, {"closeout"},
                    {"final invoice"}, {"finalized"}>>] >>

\* Scores are kept doubled, so that the weights 3 and 2.5 are the integers
\* 6 and 5 and one keyword match counts 2; the code only compares scores
\* with each other and with 0, which doubling preserves.
KeywordPoint == 2

ROLE_STATUS_MAP == <<
    [match |-> {"estimating", "proposal", "bd", "business development"},
     statuses |-> <<"Estimating", "Job Setup">>, weight |-> 6],
    [match |-> {"administrator", "admin"},
     statuses |-> <<"Job Setup", "Ready to Schedule">>, weight |-> 5],
    [match |-> {"survey", "field", "technician", "technologist"},
     statuses |-> <<"Field Work in Progress">>, weight |-> 6],
    [match |-> {"data processing", "processing", "lidar"},
     statuses |-> <<"Ready to Draft", "Drafting">>, weight |-> 6],
    [match |-> {"cad", "draft", "designer", "survbase", "markup"},
     statuses |-> <<"Drafting", "Ready to Check">>, weight |-> 6],
    [match |-> {"manager", "project manager", "pm"},
     statuses |-> <<"Checking", "Final Submission Sent">>, weight |-> 5],
    [match |-> {"accounting", "billing", "finance", "ap", "ar", "invoice"},
     statuses |-> <<"Ready to Invoice", "Invoiced">>, weight |-> 6] >>

ROLE_MAX_STATUS == <<
    [match |-> {"survey", "field", "technician", "technologist"},
     maxStatus |-> "Field Work in Progress"],
    [match |-> {"data processing", "processing", "lidar"},
     maxStatus |-> "Drafting"],
    [match |-> {"cad", "draft", "designer", "survbase", "markup"},
     maxStatus |-> "Drafting"],
    [match |-> {"manager", "project manager", "pm"},
     maxStatus |-> "Final Submission Sent"] >>

-----------------------------------------------------------------------------
(* The status order model.                                                 *)

\* buildStatusIndex(orderList).get(status): the last position holding
\* status (forEach overwrites), 0-based, or undefined.
StatusIndexGet(order, status) ==
    LET at == {i \in 1..Len(order) : order[i] = status}
    IN  IF at = {} THEN NoIdx
        ELSE (CHOOSE i \in at : \A j \in at : j <= i) - 1

\* buildStatusSet(orderList): new Set(orderList), plus orderList[0] when the
\* fallback is missing and the list is not empty (already a member).
BuildStatusSet(order) ==
    LET set == {order[i] : i \in 1..Len(order)}
    IN  IF DEFAULT_FALLBACK_STATUS \notin set /\ Len(order) > 0
        THEN set \cup {order[1]}
        ELSE set

\* statusSet.values().next().value: the first value in insertion order.
StatusSetFirst(order) == order[1]

\* The initial value of current, for each job group.
InitialCurrent(order) ==
    IF DEFAULT_FALLBACK_STATUS \in BuildStatusSet(order)
    THEN DEFAULT_FALLBACK_STATUS
    ELSE StatusSetFirst(order)

\* The cursor starting at the first rank whatever the order.
InitialCurrentIdxFirst(order) == 0

\* statusIndex.get(current) ?? 0
InitialCurrentIdx(order) ==
    LET idx == StatusIndexGet(order, InitialCurrent(order))
    IN  IF idx = NoIdx THEN 0 ELSE idx

-----------------------------------------------------------------------------
(* Rows.  A row has the columns the script reads; readInputFile gives      *)
(* every column a string ('' when the line is short).                      *)

EmptyRowValue ==
    [job |-> "", status |-> "", date |-> "", dwr |-> "", role |-> "",
     desc |-> "", additional |-> ""]

\* Object.values(row).every((value) => value === '' || value === undefined)
IsEmptyRow(row) ==
    \A f \in DOMAIN row : row[f] = ""

\* Date.parse on the date strings of the model: ISO dates give their time
\* (here the day number within 2024), anything else gives NaN, hence null.
SafeDate(value) ==
    CASE value = "2024-01-01" -> 1
      [] value = "2024-01-02" -> 2
      [] value = "2024-01-03" -> 3
      [] OTHER -> NoDate

\* String.prototype.localeCompare on the dwrNumber strings of the model:
\* the empty string sorts first, then the numerals in numeric order.
DwrCollation(value) ==
    CASE value = "" -> 0
      [] value = "1001" -> 1
      [] value = "1002" -> 2
      [] value = "1003" -> 3

LocaleCompare(a, b) == DwrCollation(a) - DwrCollation(b)

\* parts.filter(...).join(' ')
RECURSIVE JoinParts(_)
JoinParts(parts) ==
    IF parts = <<>> THEN ""
    ELSE LET rest == JoinParts(Tail(parts))
         IN  IF ~TrimNonEmpty(Head(parts)) THEN rest
             ELSE IF rest = "" THEN Head(parts)
             ELSE Head(parts) \o " " \o rest

CombineRowText(row) ==
    ToLowerCase(JoinParts(<<row.status, row.role, row.desc, row.additional>>))

-----------------------------------------------------------------------------
(* The signal scorer.                                                      *)

\* The number of patterns of one STATUS_KEYWORDS entry that match text
\* (patterns.forEach, lines 215-217).
KeywordHits(patterns, text) ==
    Cardinality({i \in 1..Len(patterns) : Test(patterns[i], text)})

RECURSIVE SumSeq(_)
SumSeq(s) == IF s = <<>> THEN 0 ELSE Head(s) + SumSeq(Tail(s))

\* The score scoreStatuses gives one status of the order: the keyword
\* matches of its STATUS_KEYWORDS entry plus the weights of the
\* ROLE_STATUS_MAP entries that match the role and list the status.
StatusScore(text, role, status) ==
    SumSeq([k \in 1..Len(STATUS_KEYWORDS) |->
        IF STATUS_KEYWORDS[k].status = status
        THEN KeywordPoint * KeywordHits(STATUS_KEYWORDS[k].patterns, text)
        ELSE 0])
    + SumSeq([h \in 1..Len(ROLE_STATUS_MAP) |->
        IF TestI(ROLE_STATUS_MAP[h].match, role)
        THEN ROLE_STATUS_MAP[h].weight
               * Cardinality({j \in 1..Len(ROLE_STATUS_MAP[h].statuses) :
                                ROLE_STATUS_MAP[h].statuses[j] = status})
        ELSE 0])

\* The scores Map restricted to the first n statuses of the order.
RECURSIVE ScoresUpTo(_, _, _, _)
ScoresUpTo(text, role, order, n) ==
    IF n = 0 THEN <<>>
    ELSE (order[n] :> StatusScore(text, role, order[n]))
            @@ ScoresUpTo(text, role, order, n - 1)

\* scoreStatuses(row, statusOrder, statusIndex), computed from the tables.
ComputeScores(row, order) ==
    ScoresUpTo(CombineRowText(row), row.role, order, Len(order))

\* For the entries of ROLE_MAX_STATUS up to k, whether match.test(role) holds.
RECURSIVE CapTests(_, _)
CapTests(k, role) ==
    IF k = 0 THEN <<>>
    ELSE Append(CapTests(k - 1, role), TestI(ROLE_MAX_STATUS[k].match, role))

-----------------------------------------------------------------------------
(* Inputs: the field values rows are drawn from, and the status orders.    *)

CanonicalOrder ==
    <<"Estimating", "Job Setup", "Ready to Schedule", "Scheduled", "On Hold",
      "Field Work in Progress", "Ready to Draft", "Drafting", "Ready to Check",
      "Checking", "Final Submission Sent", "Ready to Invoice", "Invoiced",
      "Complete">>

\* An order without the fallback status and without the cap status Drafting.
ShortOrder ==
    <<"Job Setup", "Field Work in Progress", "Checking",
      "Final Submission Sent", "Complete">>

StatusOrders == {CanonicalOrder, ShortOrder}

Statuses == {"", "TBD", "Estimating", "Complete", "Final Submission Sent"}

Roles == {"", "Field Technician", "Project Manager"}

\* An order whose fallback status is not its first status.
LateFallbackOrder ==
    <<"Job Setup", "Estimating", "Field Work in Progress",
      "Final Submission Sent", "Complete">>

CapOrders == StatusOrders \cup {LateFallbackOrder}

\* A role that matches two caps (survey and manager) and one whose only
\* cap is "Drafting".
CapRoles == {"Survey Manager", "CAD Designer"}

Descriptions ==
    {"", "site survey and field scan today",
     "final package issued, project complete"}

Content(job, status, date, dwr, role, desc) ==
    [job |-> job, status |-> status, date |-> date, dwr |-> dwr, role |-> role,
     desc |-> desc, additional |-> ""]

\* The regular expressions are tested against the text and the role alone,
\* so the scores and the cap tests of the field values above are computed
\* once; any other row is scored directly.
ScoreTable ==
    [x \in CapOrders \X Statuses \X (Roles \cup CapRoles) \X Descriptions |->
        ComputeScores(Content("", x[2], "", "", x[3], x[4]), x[1])] @@ <<>>

CapTable == [role \in Roles \cup CapRoles |-> CapTests(Len(ROLE_MAX_STATUS), role)] @@ <<>>

\* scoreStatuses(row, statusOrder, statusIndex): the scores Map, status -> score.
ScoreStatuses(row, order) ==
    LET key == <<order, row.status, row.role, row.desc>>
    IN  IF row.additional = "" /\ key \in DOMAIN ScoreTable
        THEN ScoreTable[key]
        ELSE ComputeScores(row, order)

\* cap.match.test(row[ROLE_FIELD] || '') for entry c of ROLE_MAX_STATUS.
CapMatches(c, role) ==
    IF role \in DOMAIN CapTable
    THEN CapTable[role][c]
    ELSE TestI(ROLE_MAX_STATUS[c].match, role)

\* The ranks of the caps whose pattern matches the role and whose status
\* is in the order (typeof idx === 'number').
MatchingCaps(row, order) ==
    {StatusIndexGet(order, ROLE_MAX_STATUS[c].maxStatus) :
        c \in {d \in 1..Len(ROLE_MAX_STATUS) :
                 /\ CapMatches(d, row.role)
                 /\ StatusIndexGet(order, ROLE_MAX_STATUS[d].maxStatus) # NoIdx}}

SetMin(S) == CHOOSE x \in S : \A y \in S : x <= y

Max(a, b) == IF a >= b THEN a ELSE b

Min(a, b) == IF a <= b THEN a ELSE b

\* roleCapIndex without the caps: every row may reach the last rank.
RoleCapIndexNoCaps(row, order, floorIdx) == Max(floorIdx, Len(order) - 1)

\* roleCapIndex with Math.max in place of Math.min in the loop: the least
\* restrictive of the matching caps wins.
RoleCapIndexLeastRestrictive(row, order, floorIdx) ==
    LET caps == MatchingCaps(row, order)
    IN  IF caps = {} THEN floorIdx
        ELSE Max(floorIdx, CHOOSE x \in caps : \A y \in caps : y <= x)

\* roleCapIndex(row, statusIndex, floorIdx): capIdx stays Infinity when no
\* cap applies, and then floorIdx is returned.
RoleCapIndex(row, order, floorIdx) ==
    LET caps == MatchingCaps(row, order)
    IN  IF caps = {} THEN floorIdx
        ELSE Max(floorIdx, SetMin(caps))

\* The scores.forEach of pickStatusFromSignals from position i on, with
\* best the record kept so far (idx = NoIdx while best is null).
RECURSIVE PickFrom(_, _, _, _, _, _)
PickFrom(i, best, scores, order, floorIdx, capIdx) ==
    IF i > Len(order) THEN best
    ELSE LET status == order[i]
             idx == StatusIndexGet(order, status)
             score == scores[status]
             skip == idx < floorIdx \/ idx > capIdx \/ score <= 0
             take == \/ best.idx = NoIdx
                     \/ score > best.score
                     \/ (score = best.score /\ idx > best.idx)
         IN  PickFrom(i + 1,
                      IF ~skip /\ take THEN [idx |-> idx, score |-> score] ELSE best,
                      scores, order, floorIdx, capIdx)

\* pickStatusFromSignals with idx < best.idx in the tie-break: among equal
\* top scores the lowest rank wins.
PickStatusFromSignalsLowest(row, floorIdx, capIdx, order) ==
    LET scores == ScoreStatuses(row, order)
        cands == {i \in floorIdx..capIdx :
                    i + 1 \in 1..Len(order) /\ scores[order[i + 1]] > 0}
    IN  IF cands = {} THEN NoIdx
        ELSE CHOOSE i \in cands :
                \A j \in cands :
                    \/ scores[order[i + 1]] > scores[order[j + 1]]
                    \/ scores[order[i + 1]] = scores[order[j + 1]] /\ i <= j

\* pickStatusFromSignals(row, floorIdx, capIdx, statusOrder, statusIndex):
\* best.idx, or null (NoIdx).
PickStatusFromSignals(row, floorIdx, capIdx, order) ==
    PickFrom(1, [idx |-> NoIdx, score |-> 0], ScoreStatuses(row, order),
             order, floorIdx, capIdx).idx

-----------------------------------------------------------------------------
(* The progression tracker: one iteration of entries.forEach.              *)

\* Clamp without the floor: the cursor follows idx down.
ClampNoFloor(currentIdx_, idx, capIdx) == Min(idx, capIdx)

\* Math.min(Math.max(currentIdx, idx), capIdx), lines 299 and 304.
Clamp(currentIdx_, idx, capIdx) == Min(Max(currentIdx_, idx), capIdx)

\* statusOrder[idx] || current_
StatusAtOr(order, idx, current_) ==
    IF idx + 1 \in 1..Len(order) /\ order[idx + 1] # ""
    THEN order[idx + 1]
    ELSE current_

\* The row step with a reset on miss: a row whose explicit status is
\* unknown and that has no signal puts the cursor back to the initial
\* fallback instead of carrying the current state forward.
InferRowResetOnMiss(row, order, current_, currentIdx_) ==
    LET capIdx == RoleCapIndex(row, order, currentIdx_)
        explicitIdx == StatusIndexGet(order, row.status)
        afterExplicit ==
            IF explicitIdx # NoIdx
            THEN Clamp(currentIdx_, explicitIdx, capIdx)
            ELSE currentIdx_
        signalIdx == PickStatusFromSignals(row, afterExplicit, capIdx, order)
        afterSignal ==
            IF signalIdx # NoIdx
            THEN Clamp(afterExplicit, signalIdx, capIdx)
            ELSE IF explicitIdx = NoIdx THEN InitialCurrentIdx(order)
            ELSE afterExplicit
    IN  [capIdx |-> capIdx, explicitIdx |-> explicitIdx,
         signalFloor |-> afterExplicit, signalIdx |-> signalIdx,
         currentIdx |-> afterSignal,
         current |-> StatusAtOr(order, afterSignal, current_)]

\* Lines 295-308 for a row that is not empty: the cap, the explicit status,
\* the signals, and the status committed.
InferRow(row, order, current_, currentIdx_) ==
    LET capIdx == RoleCapIndex(row, order, currentIdx_)
        explicitIdx == StatusIndexGet(order, row.status)
        afterExplicit ==
            IF explicitIdx # NoIdx
            THEN Clamp(currentIdx_, explicitIdx, capIdx)
            ELSE currentIdx_
        signalIdx == PickStatusFromSignals(row, afterExplicit, capIdx, order)
        afterSignal ==
            IF signalIdx # NoIdx
            THEN Clamp(afterExplicit, signalIdx, capIdx)
            ELSE afterExplicit
    IN  [capIdx |-> capIdx, explicitIdx |-> explicitIdx,
         signalFloor |-> afterExplicit, signalIdx |-> signalIdx,
         currentIdx |-> afterSignal,
         current |-> StatusAtOr(order, afterSignal, current_)]

\* The baseline without regressions: a known status earlier in the order
\* than current is ignored.
BaselineRowStatusMonotone(row, order, current_) ==
    IF /\ row.status \in BuildStatusSet(order)
       /\ StatusIndexGet(order, row.status) >= StatusIndexGet(order, current_)
    THEN row.status
    ELSE current_

\* The baseline without carry forward: an unknown status resets current
\* to the initial fallback.
BaselineRowStatusNoCarry(row, order, current_) ==
    IF row.status \in BuildStatusSet(order) THEN row.status ELSE InitialCurrent(order)

\* Lines 511-515 of the baseline: a known explicit status replaces current.
BaselineRowStatus(row, order, current_) ==
    IF row.status \in BuildStatusSet(order) THEN row.status ELSE current_

-----------------------------------------------------------------------------
(* Row grouping and ordering.                                              *)

\* A comparison by input position alone.
CompareByIndex(a, b) == a.index - b.index

\* The comparison function of entries.sort, lines 277-287.
Compare(a, b) ==
    LET dateA == SafeDate(a.row.date)
        dateB == SafeDate(b.row.date)
    IN  IF dateA # NoDate /\ dateB # NoDate /\ dateA # dateB
        THEN dateA - dateB
        ELSE IF a.row.dwr # b.row.dwr
        THEN LocaleCompare(a.row.dwr, b.row.dwr)
        ELSE a.index - b.index

\* The elements of a sequence.
Range(s) == {s[i] : i \in 1..Len(s)}

\* The comparison is a consistent comparator for the entries (ECMA-262,
\* Array.prototype.sort): it orders any two of them one way only, and
\* transitively.
ConsistentOn(es) ==
    /\ \A a, b \in Range(es) :
         (a # b) => ((Compare(a, b) < 0) <=> (Compare(b, a) > 0)) /\ Compare(a, b) # 0
    /\ \A a, b, c \in Range(es) :
         (Compare(a, b) < 0 /\ Compare(b, c) < 0) => Compare(a, c) < 0

\* The arrangements of the entries.
Arrangements(es) ==
    {[i \in 1..Len(es) |-> es[p[i]]] :
        p \in {q \in [1..Len(es) -> 1..Len(es)] :
                 \A i, j \in 1..Len(es) : (i # j) => (q[i] # q[j])}}

\* entries.sort(compare): the arrangement in ascending order when the
\* comparison is consistent on the entries; otherwise the order is
\* implementation-defined (ECMA-262) and any arrangement may result.
SortOutcomes(es) ==
    IF ConsistentOn(es)
    THEN {s \in Arrangements(es) :
            \A i \in 1..(Len(s) - 1) : Compare(s[i], s[i + 1]) < 0}
    ELSE Arrangements(es)

\* The position of the group of jobId in the groups Map, or 0.
GroupOf(gs, jobId) ==
    IF \E g \in 1..Len(gs) : gs[g].jobId = jobId
    THEN CHOOSE g \in 1..Len(gs) : gs[g].jobId = jobId
    ELSE 0

\* Grouping that replaces the list of a known job instead of pushing to it.
PushEntryReplacing(gs, row, index) ==
    LET g == IF \E h \in 1..Len(gs) : gs[h].jobId = row.job
             THEN CHOOSE h \in 1..Len(gs) : gs[h].jobId = row.job
             ELSE 0
        entry == [row |-> row, index |-> index]
    IN  IF g = 0
        THEN Append(gs, [jobId |-> row.job, entries |-> <<entry>>])
        ELSE [gs EXCEPT ![g].entries = <<entry>>]

\* Grouping that ignores the job number: every row joins the first group,
\* and the rows of all jobs share one cursor.
PushEntryOneGroup(gs, row, index) ==
    LET entry == [row |-> row, index |-> index]
    IN  IF gs = <<>>
        THEN Append(gs, [jobId |-> row.job, entries |-> <<entry>>])
        ELSE [gs EXCEPT ![1].entries = Append(@, entry)]

\* Lines 265-269 for one row: groups.get(jobId).push({ row, index }), after
\* creating the list when the job is new.
PushEntry(gs, row, index) ==
    LET g == GroupOf(gs, row.job)
        entry == [row |-> row, index |-> index]
    IN  IF g = 0
        THEN Append(gs, [jobId |-> row.job, entries |-> <<entry>>])
        ELSE [gs EXCEPT ![g].entries = Append(@, entry)]

-----------------------------------------------------------------------------
(* The rows the specifications draw their inputs from.                     *)

\* Rows of one job whose processing order is the input order, with every
\* combination of explicit status, role and description, and the empty row.
EngineRows ==
    {Content("J1", s, "", "", r, d) :
        s \in {"TBD", "Estimating", "Complete"}, r \in Roles, d \in Descriptions}
    \cup {EmptyRowValue}

\* Rows of the baseline: two jobs, two dates, known and unknown statuses.
BaselineRows ==
    {Content(j, s, d, "", "", "") :
        j \in {"J1", "J2"},
        s \in {"", "TBD", "Estimating", "Complete"},
        d \in {"2024-01-01", "2024-01-02"}}

\* Rows whose order matters: ties on date and dwrNumber, dates that do not
\* parse, a row without job number, and the empty row.
OrderRows ==
    {EmptyRowValue,
     Content("", "Final Submission Sent", "2024-01-02", "", "Project Manager", ""),
     Content("", "", "2024-01-02", "", "Field Technician", ""),
     Content("", "", "2024-01-01", "1002", "Field Technician", ""),
     Content("", "Final Submission Sent", "", "1001", "Project Manager", ""),
     Content("J1", "Final Submission Sent", "2024-01-01", "", "Project Manager", ""),
     Content("J1", "", "2024-01-01", "", "Field Technician", ""),
     Content("J1", "", "2024-01-02", "1001", "Field Technician", "")}

\* Rows of one job in input order whose roles match no cap, one cap, two
\* caps, or a cap whose status the short order lacks, and the empty row.
CapRows ==
    {Content("J1", s, "", "", r, d) :
        s \in {"TBD", "Complete"},
        r \in {"", "Project Manager"} \cup CapRoles,
        d \in {"", "site survey and field scan today"}}
    \cup {EmptyRowValue}

SeqsUpTo(S, n) == UNION {[1..k -> S] : k \in 1..n}

-----------------------------------------------------------------------------
(* The state machine.                                                      *)

InitWith(variants, orders, universe, maxLen) ==
    /\ variant \in variants
    /\ statusOrder \in orders
    /\ rows \in SeqsUpTo(universe, maxLen)
    /\ pc = "group"
    /\ ri = 1
    /\ groups = <<>>
    /\ gi = 0
    /\ entries = <<>>
    /\ ei = 0
    /\ current = ""
    /\ currentIdx = 0
    /\ assignments = <<>>
    /\ writes = [i \in {} |-> 0]
    /\ log = <<>>

\* rows.forEach((row, index) => ...), lines 265-269 (487-491): one row.
GroupRow ==
    /\ pc = "group"
    /\ ri <= Len(rows)
    /\ groups' = PushEntry(groups, rows[ri], ri - 1)
    /\ ri' = ri + 1
    /\ pc' = IF ri = Len(rows) THEN "sort" ELSE "group"
    /\ gi' = IF ri = Len(rows) THEN 1 ELSE gi
    /\ UNCHANGED <<variant, statusOrder, rows, entries, ei, current, currentIdx,
                   assignments, writes, log>>

\* groups.forEach((entries) => ...), lines 271-287 (493-508): the cursor of
\* the group is initialised and its entries are sorted.
StartGroup ==
    /\ pc = "sort"
    /\ current' = InitialCurrent(statusOrder)
    /\ currentIdx' = IF variant = "engine" THEN InitialCurrentIdx(statusOrder) ELSE 0
    /\ entries' \in SortOutcomes(groups[gi].entries)
    /\ ei' = 1
    /\ pc' = "rows"
    /\ UNCHANGED <<variant, statusOrder, rows, ri, groups, gi, assignments,
                   writes, log>>

\* assignments.set(index, status)
SetAssignment(index, status) ==
    /\ assignments' = [i \in DOMAIN assignments \cup {index} |->
                         IF i = index THEN status ELSE assignments[i]]
    /\ writes' = [i \in DOMAIN writes \cup {index} |->
                    IF i = index
                    THEN (IF i \in DOMAIN writes THEN writes[i] ELSE 0) + 1
                    ELSE writes[i]]

\* The end of one iteration of entries.forEach: the next entry, the next
\* group, or the return of inferStatuses.
Advance ==
    /\ ei' = ei + 1
    /\ gi' = IF ei = Len(entries) /\ gi < Len(groups) THEN gi + 1 ELSE gi
    /\ pc' = IF ei < Len(entries) THEN "rows"
             ELSE IF gi < Len(groups) THEN "sort" ELSE "done"

\* floorIdx is the cursor before the row, signalFloor and signalIdx the
\* floor given to pickStatusFromSignals and its result, idx the cursor
\* after the row.
LogRecord(entry, floorIdx, capIdx, signalFloor, signalIdx, idx, status) ==
    [index |-> entry.index, job |-> entry.row.job, row |-> entry.row,
     empty |-> (variant = "engine" /\ IsEmptyRow(entry.row)),
     floorIdx |-> floorIdx, capIdx |-> capIdx, signalFloor |-> signalFloor,
     signalIdx |-> signalIdx, idx |-> idx, status |-> status]

\* Lines 290-293: an empty row is assigned '' and the cursor is left alone.
ProcessEmptyRow ==
    /\ pc = "rows"
    /\ variant = "engine"
    /\ ei <= Len(entries)
    /\ IsEmptyRow(entries[ei].row)
    /\ SetAssignment(entries[ei].index, "")
    /\ log' = Append(log, LogRecord(entries[ei], currentIdx, currentIdx,
                                    currentIdx, NoIdx, currentIdx, ""))
    /\ Advance
    /\ UNCHANGED <<variant, statusOrder, rows, ri, groups, entries, current,
                   currentIdx>>

\* Lines 295-308: a row that is not empty moves the cursor and is assigned
\* the status at the cursor.
ProcessRow ==
    /\ pc = "rows"
    /\ variant = "engine"
    /\ ei <= Len(entries)
    /\ ~IsEmptyRow(entries[ei].row)
    /\ LET step == InferRow(entries[ei].row, statusOrder, current, currentIdx)
       IN  /\ currentIdx' = step.currentIdx
           /\ current' = step.current
           /\ SetAssignment(entries[ei].index, step.current)
           /\ log' = Append(log, LogRecord(entries[ei], currentIdx, step.capIdx,
                                           step.signalFloor, step.signalIdx,
                                           step.currentIdx, step.current))
    /\ Advance
    /\ UNCHANGED <<variant, statusOrder, rows, ri, groups, entries>>

\* Lines 510-516 of the baseline.
BaselineRow ==
    /\ pc = "rows"
    /\ variant = "baseline"
    /\ ei <= Len(entries)
    /\ LET status == BaselineRowStatus(entries[ei].row, statusOrder, current)
       IN  /\ current' = status
           /\ SetAssignment(entries[ei].index, status)
           /\ log' = Append(log, LogRecord(entries[ei], 0, 0, 0, NoIdx, 0, status))
    /\ Advance
    /\ UNCHANGED <<variant, statusOrder, rows, ri, groups, entries, currentIdx>>

\* The engine on rows of one job in input order.
Init == InitWith({"engine"}, {CanonicalOrder}, EngineRows, MaxRows)

Next == GroupRow \/ StartGroup \/ ProcessEmptyRow \/ ProcessRow

Spec == Init /\ [][Next]_vars

\* The engine on rows whose order is decided by dates, dwrNumbers and
\* input positions.
InitOrder == InitWith({"engine"}, {CanonicalOrder}, OrderRows, MaxOrderRows)

SpecOrder == InitOrder /\ [][Next]_vars

\* The engine under three status orders, on rows with every kind of role.
InitCaps == InitWith({"engine"}, CapOrders, CapRows, MaxRows)

SpecCaps == InitCaps /\ [][Next]_vars

\* The baseline.
InitBaseline == InitWith({"baseline"}, StatusOrders, BaselineRows, MaxRows)

NextBaseline == GroupRow \/ StartGroup \/ BaselineRow

SpecBaseline == InitBaseline /\ [][NextBaseline]_vars

-----------------------------------------------------------------------------
(* The whole function on other inputs: what inferStatuses assigns to a     *)
(* list of rows, as a fold of the same steps.                              *)

\* The groups Map after rows.forEach over the first n rows.
RECURSIVE GroupsOf(_, _)
GroupsOf(rws, n) ==
    IF n = 0 THEN <<>> ELSE PushEntry(GroupsOf(rws, n - 1), rws[n], n - 1)

\* entries.forEach of the engine from entry k on, with cursor (cur, idx):
\* the assignments it sets, as a set of <<index, status>> pairs.
RECURSIVE RunEntries(_, _, _, _, _)
RunEntries(es, k, order, cur, idx) ==
    IF k > Len(es) THEN {}
    ELSE IF IsEmptyRow(es[k].row)
    THEN {<<es[k].index, "">>} \cup RunEntries(es, k + 1, order, cur, idx)
    ELSE LET step == InferRow(es[k].row, order, cur, idx)
         IN  {<<es[k].index, step.current>>}
                \cup RunEntries(es, k + 1, order, step.current, step.currentIdx)

\* The assignments one job group can produce: one set of pairs for each
\* outcome of the sort.
GroupResults(es, order) ==
    {RunEntries(s, 1, order, InitialCurrent(order), InitialCurrentIdx(order)) :
        s \in SortOutcomes(es)}

\* Every assignment of <<index, status>> that some run of the engine on rws
\* can produce.
PossibleAssignments(rws, order) ==
    LET gs == GroupsOf(rws, Len(rws))
    IN  UNION {UNION GroupResults(gs[g].entries, order) : g \in 1..Len(gs)}

IndexPermutations(n) ==
    {q \in [1..n -> 1..n] : \A i, j \in 1..n : (i # j) => (q[i] # q[j])}

\* rws without its element at position e.
Without(rws, e) ==
    [i \in 1..(Len(rws) - 1) |-> IF i < e THEN rws[i] ELSE rws[i + 1]]

-----------------------------------------------------------------------------
(* Properties.                                                             *)

Rank(status) == StatusIndexGet(statusOrder, status)

\* Log record k is the first row processed for its job.
FirstOfJob(k) == \A i \in 1..(k - 1) : log[i].job # log[k].job

\* C1: Monotonicity.  Within a job group, in processing order, the rank of
\* the status committed for a non-empty row is never below the rank of the
\* status committed for an earlier non-empty row of the group, whatever
\* explicit statuses, roles and texts the rows carry.
C1_Monotonicity ==
    \A i, j \in 1..Len(log) :
        (i < j /\ log[i].job = log[j].job /\ ~log[i].empty /\ ~log[j].empty)
            => Rank(log[j].status) >= Rank(log[i].status)

\* A row with a recognized explicit status earlier than the rank already
\* committed for its group has been processed.
C1_Witness ==
    \E i, j \in 1..Len(log) :
        /\ i < j /\ log[i].job = log[j].job /\ ~log[i].empty /\ ~log[j].empty
        /\ Rank(log[j].row.status) # NoIdx
        /\ Rank(log[j].row.status) < Rank(log[i].status)

\* C2: Cap respect.  A non-empty row whose role matches a role cap is
\* committed at a rank at most the cap's rank, unless the cursor was
\* already beyond the cap before the row, and then it is committed at the
\* rank the cursor had.
C2_CapRespect ==
    \A k \in 1..Len(log) :
        ~log[k].empty =>
            \A c \in 1..Len(ROLE_MAX_STATUS) :
                (/\ TestI(ROLE_MAX_STATUS[c].match, log[k].row.role)
                 /\ Rank(ROLE_MAX_STATUS[c].maxStatus) # NoIdx)
                    => IF log[k].floorIdx > Rank(ROLE_MAX_STATUS[c].maxStatus)
                       THEN Rank(log[k].status) = log[k].floorIdx
                       ELSE Rank(log[k].status) <= Rank(ROLE_MAX_STATUS[c].maxStatus)

\* A capped row was processed with the cursor beyond its cap, after a
\* capped row that advanced the cursor.
C2_Witness ==
    \E i, k \in 1..Len(log) :
        /\ i < k /\ log[i].job = log[k].job
        /\ ~log[i].empty /\ ~log[k].empty
        /\ log[i].floorIdx < Rank(log[i].status)
        /\ \E c \in 1..Len(ROLE_MAX_STATUS) :
              /\ TestI(ROLE_MAX_STATUS[c].match, log[k].row.role)
              /\ Rank(ROLE_MAX_STATUS[c].maxStatus) # NoIdx
              /\ log[k].floorIdx > Rank(ROLE_MAX_STATUS[c].maxStatus)

\* C3: Keyword-only advance.  The first row of a job, with an unrecognized
\* explicit status, no role and the description "site survey and field
\* scan today", is committed as "Field Work in Progress".
C3_KeywordOnlyAdvance ==
    \A k \in 1..Len(log) :
        (/\ statusOrder = CanonicalOrder
         /\ FirstOfJob(k)
         /\ Rank(log[k].row.status) = NoIdx
         /\ log[k].row.role = ""
         /\ log[k].row.desc = "site survey and field scan today")
            => log[k].status = "Field Work in Progress"

\* C4: Explicit status regression blocked.  A job whose two rows carry only
\* the explicit statuses "Complete" then "Estimating" is assigned
\* "Complete" for both.
C4_RegressionBlocked ==
    \A i, j \in 1..Len(log) :
        (/\ statusOrder = CanonicalOrder
         /\ i < j /\ log[i].job = log[j].job
         /\ \A k \in 1..Len(log) : (log[k].job = log[i].job) => k \in {i, j}
         /\ log[i].row.status = "Complete" /\ log[j].row.status = "Estimating"
         /\ log[i].row.role = "" /\ log[j].row.role = ""
         /\ log[i].row.desc = "" /\ log[j].row.desc = "")
            => /\ log[i].status = "Complete"
               /\ log[j].status = "Complete"

\* C7: Role cap overrides keyword.  The first row of a job, with role
\* "Field Technician" and description "final package issued, project
\* complete", is committed as "Field Work in Progress", whatever its
\* explicit status.
C7_RoleCapOverridesKeyword ==
    \A k \in 1..Len(log) :
        (/\ statusOrder = CanonicalOrder
         /\ FirstOfJob(k)
         /\ log[k].row.role = "Field Technician"
         /\ log[k].row.desc = "final package issued, project complete")
            => /\ log[k].status = "Field Work in Progress"
               /\ assignments[log[k].index] = "Field Work in Progress"

\* Such a row, with the explicit status "Complete", has been processed.
C7_Witness ==
    \E k \in 1..Len(log) :
        /\ statusOrder = CanonicalOrder
        /\ FirstOfJob(k)
        /\ log[k].row.role = "Field Technician"
        /\ log[k].row.desc = "final package issued, project complete"
        /\ log[k].row.status = "Complete"

\* The status the run assigned to input position i (1-based) of rows.
Assigned(i) == assignments[i - 1]

\* Every run of the engine on the rows permuted by p assigns to each row
\* the status this run assigned to it.
SameUnder(p) ==
    \A a \in PossibleAssignments([i \in 1..Len(rows) |-> rows[p[i]]], statusOrder) :
        a[2] = Assigned(p[a[1] + 1])

\* Within each job all dates parse and no two rows have both the same
\* date and the same dwrNumber, so no two rows compare by input position.
NoTies ==
    \A i, j \in 1..Len(rows) :
        (i # j /\ rows[i].job = rows[j].job)
            => /\ SafeDate(rows[i].date) # NoDate
               /\ SafeDate(rows[j].date) # NoDate
               /\ \/ SafeDate(rows[i].date) # SafeDate(rows[j].date)
                  \/ LocaleCompare(rows[i].dwr, rows[j].dwr) # 0

\* C5 as stated: Idempotent ordering.  For any permutation of the input
\* rows, every row receives the same final status, also when rows of a job
\* tie on date and dwrNumber or have dates that do not parse.
C5_AnyPermutation ==
    (pc = "done") => \A p \in IndexPermutations(Len(rows)) : SameUnder(p)

\* C5 as amended: for any permutation of the input rows, every row receives
\* the same final status, provided that within each job all dates parse and
\* no two rows have both the same date and the same dwrNumber.
C5_PermutationWithoutTies ==
    (pc = "done" /\ NoTies) => \A p \in IndexPermutations(Len(rows)) : SameUnder(p)

\* A finished run without ties in which two rows of one job were processed
\* in the reverse of their input order and were assigned different statuses.
C5_Witness ==
    /\ pc = "done"
    /\ NoTies
    /\ \E i, j \in 1..Len(log) :
          /\ i < j /\ log[i].job = log[j].job
          /\ log[i].index > log[j].index
          /\ log[i].status # log[j].status

\* The log record of input position i (1-based) of rows.
LogAt(i) == CHOOSE k \in 1..Len(log) : log[k].index = i - 1

\* C6: Empty-row pass-through.  A row whose every field is empty is
\* assigned the empty string and leaves the cursor unchanged, and every
\* row of its group processed after it receives the status it receives
\* when the empty row is absent from the input.
C6_EmptyRowPassThrough ==
    /\ \A k \in 1..Len(log) :
          log[k].empty => (log[k].status = "" /\ log[k].idx = log[k].floorIdx
                           /\ assignments[log[k].index] = "")
    /\ (pc = "done") =>
          \A e \in 1..Len(rows) :
              IsEmptyRow(rows[e]) =>
                  \A a \in PossibleAssignments(Without(rows, e), statusOrder) :
                      LET i == IF a[1] + 1 < e THEN a[1] + 1 ELSE a[1] + 2
                      IN  (rows[i].job = rows[e].job /\ LogAt(i) > LogAt(e))
                              => a[2] = Assigned(i)

\* C8: Assignment completeness.  Every key of the assignment map is an
\* input row position and is set once; every row position belongs to
\* exactly one entry of exactly one job group; and when inferStatuses
\* returns, the map has an entry for every row position.
C8_AssignmentCompleteness ==
    /\ DOMAIN assignments = DOMAIN writes
    /\ \A i \in DOMAIN writes : i \in 0..(Len(rows) - 1) /\ writes[i] = 1
    /\ \A i \in DOMAIN assignments :
          Cardinality({k \in 1..Len(log) : log[k].index = i}) = 1
    /\ (pc # "group") =>
          \A i \in 0..(Len(rows) - 1) :
              Cardinality({<<g, k>> \in (1..Len(groups)) \X (1..Len(rows)) :
                              /\ k <= Len(groups[g].entries)
                              /\ groups[g].entries[k].index = i}) = 1
    /\ (pc = "done") => DOMAIN assignments = 0..(Len(rows) - 1)

\* inferStatuses has returned for rows of two job groups, one of them with
\* more than one row.
C8_Witness ==
    /\ pc = "done"
    /\ Len(groups) >= 2
    /\ \E g \in 1..Len(groups) : Len(groups[g].entries) >= 2

\* C9: the baseline allows regressions.  A row whose explicit status is in
\* the status set is assigned exactly that status, also when it is earlier
\* in the order than the status assigned to the previous row of the job.
C9_BaselineTakesKnownStatus ==
    \A k \in 1..Len(log) :
        (log[k].row.status \in {statusOrder[i] : i \in 1..Len(statusOrder)})
            => /\ log[k].status = log[k].row.status
               /\ assignments[log[k].index] = log[k].row.status

\* A row of the baseline was assigned a known status earlier in the order
\* than the status assigned to the previous row of its job.
C9_Witness ==
    \E i, j \in 1..Len(log) :
        /\ i < j /\ log[i].job = log[j].job
        /\ \A k \in (i + 1)..(j - 1) : log[k].job # log[i].job
        /\ Rank(log[j].row.status) # NoIdx
        /\ Rank(log[j].status) < Rank(log[i].status)

\* The status the baseline assigned to the previous row of the job of log
\* record k, or fallback when k is the first row of its job.
PreviousOr(k, fallback) ==
    IF FirstOfJob(k) THEN fallback
    ELSE log[CHOOSE i \in 1..(k - 1) :
                /\ log[i].job = log[k].job
                /\ \A m \in (i + 1)..(k - 1) : log[m].job # log[k].job].status

Known(status) == \E i \in 1..Len(statusOrder) : statusOrder[i] = status

-----------------------------------------------------------------------------
(* The cap and the signals.                                                *)

\* The entries of the role-cap table whose pattern matches the role.
MatchingEntries(role) ==
    {c \in 1..Len(ROLE_MAX_STATUS) : TestI(ROLE_MAX_STATUS[c].match, role)}

\* The ranks of the cap statuses of the matching entries, for the cap
\* statuses the order holds.
MatchingCapRanks(role) ==
    {Rank(ROLE_MAX_STATUS[c].maxStatus) : c \in MatchingEntries(role)} \ {NoIdx}

\* C12 as stated: capRank with no matching entry.  When no role-cap entry
\* matches the role of a non-empty row, the cap computed for the row is
\* unbounded: it is not below the last rank of the order.
C12_NoMatchUnbounded ==
    \A k \in 1..Len(log) :
        (~log[k].empty /\ MatchingEntries(log[k].row.role) = {})
            => log[k].capIdx >= Len(statusOrder) - 1

\* C13: capRank with matching entries.  When role-cap entries match the
\* role of a row and the order ranks their cap statuses, the cap of the
\* row is max(floorRank, minimum of these ranks); and for every non-empty
\* row the cap is greater than or equal to floorRank.
C13_CapIsFlooredMinimum ==
    \A k \in 1..Len(log) :
        ~log[k].empty
            => LET ranks == MatchingCapRanks(log[k].row.role)
               IN  /\ log[k].capIdx >= log[k].floorIdx
                   /\ (ranks # {})
                        => log[k].capIdx = Max(log[k].floorIdx, SetMin(ranks))

\* A row matched one cap above its floor and was capped there, and a later
\* row matched two caps of different ranks, the lower one below its floor,
\* and was capped at the floor.
C13_WitnessFloor ==
    \E j, k \in 1..Len(log) :
        /\ ~log[j].empty /\ ~log[k].empty
        /\ MatchingCapRanks(log[j].row.role) # {}
        /\ log[j].capIdx = SetMin(MatchingCapRanks(log[j].row.role))
        /\ log[j].capIdx > log[j].floorIdx
        /\ \E a, b \in MatchingCapRanks(log[k].row.role) :
              a < b /\ a < log[k].floorIdx /\ log[k].capIdx = log[k].floorIdx

\* A row matched two caps of different ranks above its floor and was
\* capped at the lower one.
C13_Witness ==
    \E k \in 1..Len(log) :
        /\ ~log[k].empty
        /\ \E a, b \in MatchingCapRanks(log[k].row.role) :
              a < b /\ log[k].floorIdx < a /\ log[k].capIdx = a

\* The score of the status of rank i for the row of log record k.
ScoreAt(k, i) == ScoreStatuses(log[k].row, statusOrder)[statusOrder[i + 1]]

\* The ranks in [floor, cap] given to pickStatusFromSignals for log record
\* k whose status has a strictly positive score.
Candidates(k) ==
    {i \in log[k].signalFloor..log[k].capIdx :
        i + 1 \in 1..Len(statusOrder) /\ ScoreAt(k, i) > 0}

\* C14: Signal selection.  pickStatusFromSignals returns the rank that,
\* among the ranks in [floor, cap] with a strictly positive score, has the
\* highest score, and among equal top scores is the highest rank; it
\* returns null exactly when no rank in [floor, cap] has a positive score.
C14_SignalSelection ==
    \A k \in 1..Len(log) :
        ~log[k].empty
            => /\ (log[k].signalIdx = NoIdx) <=> (Candidates(k) = {})
               /\ (Candidates(k) # {})
                    => /\ log[k].signalIdx \in Candidates(k)
                       /\ \A c \in Candidates(k) :
                             \/ ScoreAt(k, log[k].signalIdx) > ScoreAt(k, c)
                             \/ /\ ScoreAt(k, log[k].signalIdx) = ScoreAt(k, c)
                                /\ log[k].signalIdx >= c

\* For one row pickStatusFromSignals chose a rank whose score was above
\* that of a higher candidate rank, and for another row it chose the
\* higher of two candidate ranks with the same top score.
C14_Witness ==
    /\ \E k \in 1..Len(log) :
          /\ ~log[k].empty
          /\ \E c \in Candidates(k) :
                /\ c > log[k].signalIdx
                /\ log[k].signalIdx \in Candidates(k)
                /\ ScoreAt(k, c) < ScoreAt(k, log[k].signalIdx)
    /\ \E k \in 1..Len(log) :
          /\ ~log[k].empty
          /\ \E a, b \in Candidates(k) :
                /\ a < b
                /\ log[k].signalIdx = b
                /\ ScoreAt(k, a) = ScoreAt(k, b)

\* pickStatusFromSignals returned null for a row with a positive score
\* outside [floor, cap].
C14_WitnessNull ==
    \E k \in 1..Len(log) :
        /\ ~log[k].empty
        /\ log[k].signalIdx = NoIdx
        /\ \E i \in 0..(Len(statusOrder) - 1) : ScoreAt(k, i) > 0

-----------------------------------------------------------------------------
(* The order within a group, the cursor and the groups.                    *)

\* C15 as stated: Intra-group ordering is a total order.  On the entries
\* of each job group the comparison of the sort is a strict total order:
\* it orders any two different entries, one way only, and it is
\* transitive, whether the dates parse or not.
C15_StrictTotalOrder ==
    \A g \in 1..Len(groups) :
        LET es == Range(groups[g].entries)
        IN  /\ \A a, b \in es :
                 (a # b) => (Compare(a, b) < 0) # (Compare(b, a) < 0)
            /\ \A a, b, c \in es :
                 (Compare(a, b) < 0 /\ Compare(b, c) < 0) => Compare(a, c) < 0

\* C16: Rank cursor range and initial state.  The cursor of each job group
\* starts at rank("Estimating"), or at 0 when "Estimating" is not in the
\* order; after every row it is within [0, len(order)-1]; and the status
\* committed for a non-empty row is order[r], r being the cursor after
\* the row.
C16_CursorRangeAndStart ==
    /\ currentIdx \in 0..(Len(statusOrder) - 1)
    /\ (pc = "rows" /\ ei = 1)
         => currentIdx = IF Known("Estimating") THEN Rank("Estimating") ELSE 0
    /\ \A k \in 1..Len(log) :
          /\ log[k].floorIdx \in 0..(Len(statusOrder) - 1)
          /\ log[k].idx \in 0..(Len(statusOrder) - 1)
          /\ ~log[k].empty
               => /\ log[k].status = statusOrder[log[k].idx + 1]
                  /\ assignments[log[k].index] = log[k].status

\* Under an order whose "Estimating" is not first, the first row of a job
\* started from rank("Estimating") and a row moved the cursor up to the
\* last rank it can reach.
C16_Witness ==
    /\ Rank("Estimating") > 0
    /\ \E k \in 1..Len(log) :
          /\ ~log[k].empty
          /\ FirstOfJob(k)
          /\ log[k].floorIdx = Rank("Estimating")
    /\ \E k \in 1..Len(log) :
          /\ ~log[k].empty
          /\ log[k].idx > log[k].floorIdx
          /\ log[k].status = statusOrder[log[k].idx + 1]

\* Under an order without "Estimating", a job group started at rank 0.
C16_WitnessAbsent ==
    /\ ~Known("Estimating")
    /\ \E k \in 1..Len(log) :
          ~log[k].empty /\ FirstOfJob(k) /\ log[k].floorIdx = 0

\* The rows of job j alone, in input order.
RowsOfJob(j) ==
    LET OfJob(r) == r.job = j
    IN  SelectSeq(rows, OfJob)

\* The position (from 0) that input row index i has among the rows of its
\* job.
PositionInJob(i) ==
    Cardinality({m \in 1..i : rows[m].job = rows[i + 1].job})

\* What the run assigned to the rows of job j, each keyed by its position
\* among the rows of the job.
AssignedToJob(j) ==
    {<<PositionInJob(i), assignments[i]>> :
        i \in {m \in DOMAIN assignments : rows[m + 1].job = j}}

\* C17: Group independence.  When inferStatuses returns, the statuses of
\* the rows of each job are those the engine assigns when given the rows
\* of that job alone, under the same status order: the rows of the other
\* jobs, and the groups processed before, have no effect (each group has
\* its own cursor, reset to the fallback).
C17_GroupIndependence ==
    (pc = "done")
        => \A j \in {rows[i].job : i \in 1..Len(rows)} :
              LET alone == GroupsOf(RowsOfJob(j), Len(RowsOfJob(j)))
              IN  /\ Len(alone) = 1
                  /\ AssignedToJob(j) \in GroupResults(alone[1].entries, statusOrder)

\* inferStatuses has returned for rows of two jobs: the group processed
\* first ended at a rank above the initial one, and a non-empty row of the
\* group processed after it was committed at a lower rank.
C17_Witness ==
    /\ pc = "done"
    /\ \E i, k \in 1..Len(log) :
          /\ i < k
          /\ log[i].job # log[k].job
          /\ ~log[i].empty /\ ~log[k].empty
          /\ log[i].idx > InitialCurrentIdx(statusOrder)
          /\ log[k].idx < log[i].idx

-----------------------------------------------------------------------------
(* Rows that leave the cursor where it is.                                 *)

\* The status carried forward to log record k: the status committed for
\* the latest non-empty row of its job processed before it, or the initial
\* status of the group.
CarriedForward(k) ==
    LET before == {i \in 1..(k - 1) : log[i].job = log[k].job /\ ~log[i].empty}
    IN  IF before = {} THEN InitialCurrent(statusOrder)
        ELSE log[CHOOSE i \in before : \A m \in before : m <= i].status

\* C18: Carry forward on miss.  A non-empty row whose explicit status is
\* not a status of the order and for which no status in [current rank,
\* cap] has a positive score leaves the cursor unchanged and is assigned
\* the carried-forward status of its group; and the tracker never stops
\* before it has returned, whatever the rows are: it always has a row to
\* group, a group to sort with a sort outcome, or an entry to process.
C18_CarryForwardOnMiss ==
    /\ \A k \in 1..Len(log) :
          (/\ ~log[k].empty
           /\ ~Known(log[k].row.status)
           /\ \A i \in log[k].floorIdx..log[k].capIdx : ScoreAt(k, i) <= 0)
              => /\ log[k].idx = log[k].floorIdx
                 /\ log[k].status = CarriedForward(k)
                 /\ assignments[log[k].index] = CarriedForward(k)
    /\ (pc = "group") => ri \in 1..Len(rows)
    /\ (pc = "sort")
         => gi \in 1..Len(groups) /\ SortOutcomes(groups[gi].entries) # {}
    /\ (pc = "rows") => ei \in 1..Len(entries)

\* After a row that advanced the cursor, a row with an unknown status and
\* no positive score in range was assigned the status carried forward.
C18_Witness ==
    \E k \in 2..Len(log) :
        /\ ~log[k].empty
        /\ ~Known(log[k].row.status)
        /\ \A i \in log[k].floorIdx..log[k].capIdx : ScoreAt(k, i) <= 0
        /\ log[k].floorIdx > InitialCurrentIdx(statusOrder)
        /\ log[k].status = log[k - 1].status
        /\ log[k].status # InitialCurrent(statusOrder)

\* C19: in the engine, a non-empty row whose role matches no role-cap
\* entry, or only entries whose cap status the order lacks, gets the
\* current rank as its cap and leaves the cursor unchanged: it is assigned
\* the carried-forward status of its group, whatever its explicit status
\* and its scores are; a row that advances the cursor matches a role cap
\* whose status the order holds.
C19_UncappedRowNeverAdvances ==
    \A k \in 1..Len(log) :
        ~log[k].empty
            => /\ (MatchingCapRanks(log[k].row.role) = {})
                    => /\ log[k].capIdx = log[k].floorIdx
                       /\ log[k].idx = log[k].floorIdx
                       /\ log[k].status = CarriedForward(k)
                       /\ assignments[log[k].index] = CarriedForward(k)
               /\ (log[k].idx > log[k].floorIdx)
                    => /\ MatchingEntries(log[k].row.role) # {}
                       /\ MatchingCapRanks(log[k].row.role) # {}

\* A row without role, with a known explicit status above the cursor and
\* positive keyword scores above it, kept the carried-forward status; and
\* so did a row whose role matches only a cap that the order lacks.
C19_Witness ==
    /\ \E k \in 1..Len(log) :
          /\ ~log[k].empty
          /\ MatchingEntries(log[k].row.role) = {}
          /\ Rank(log[k].row.status) > log[k].floorIdx
          /\ \E i \in (log[k].floorIdx + 1)..(Len(statusOrder) - 1) : ScoreAt(k, i) > 0
          /\ log[k].status = CarriedForward(k)
    /\ \E k \in 1..Len(log) :
          /\ ~log[k].empty
          /\ MatchingEntries(log[k].row.role) # {}
          /\ MatchingCapRanks(log[k].row.role) = {}
          /\ Rank(log[k].row.status) > log[k].floorIdx
          /\ log[k].status = CarriedForward(k)

====
